---------------------------- MODULE Spec2Model ----------------------------
(***************************************************************************)
(* A model of pngme: the PNG chunk-type code (chunk_type.rs), the chunk    *)
(* record and its wire format (chunk.rs) and the four commands that read   *)
(* and rewrite PNG files (commands.rs).                                    *)
(*                                                                         *)
(* Bytes are integers 0..255.  A u32 is a sequence of 32 bits, bit 1 the   *)
(* least significant: values of 2^31 and more do not fit the integers of   *)
(* the model checker, and the checksum and the length field are full       *)
(* 32-bit values.  A String / &str is the sequence of its UTF-8 bytes.     *)
(***************************************************************************)
EXTENDS Integers, Sequences, FiniteSets, TLC

-----------------------------------------------------------------------------
(* Results: Ok(v), Err(e), and a panic (the thread unwinds, the process    *)
(* ends with the message on stderr).                                       *)

Ok(v) == [tag |-> "Ok", val |-> v]

Err(e) == [tag |-> "Err", err |-> e]

Panic(m) == [tag |-> "Panic", msg |-> m]

-----------------------------------------------------------------------------
(* Bytes and 32-bit words.                                                 *)

Pow2(n) == 2 ^ n

\* bit k (0 = least significant) of the byte or small integer b
BitOf(b, k) == (b \div Pow2(k)) % 2

\* a & b on bytes
RECURSIVE BitAnd(_, _)
BitAnd(a, b) ==
    IF a = 0 \/ b = 0 THEN 0
    ELSE (a % 2) * (b % 2) + 2 * BitAnd(a \div 2, b \div 2)

\* a function on 1..32 as a tuple of 32 bits (the tuple holds its elements'
\* values, a function expression is evaluated anew at every application)
U32(f) == f \o <<>>

\* u32::from_be_bytes: the first byte is the most significant
from_be_bytes(b) ==
    U32([i \in 1..32 |-> BitOf(b[4 - ((i - 1) \div 8)], (i - 1) % 8)])

\* byte k (0 = least significant) of the u32 u
U32Byte(u, k) ==
    u[8 * k + 1] + 2 * u[8 * k + 2] + 4 * u[8 * k + 3] + 8 * u[8 * k + 4]
    + 16 * u[8 * k + 5] + 32 * u[8 * k + 6] + 64 * u[8 * k + 7] + 128 * u[8 * k + 8]

\* u32::to_be_bytes
to_be_bytes(u) == <<U32Byte(u, 3), U32Byte(u, 2), U32Byte(u, 1), U32Byte(u, 0)>>

\* `n as u32` for a usize n below 2^31 (every length of the model is)
as_u32(n) == U32([i \in 1..32 |-> IF i = 32 THEN 0 ELSE BitOf(n, i - 1)])

\* the u32 u is greater than the natural number n (n below 2^31)
RECURSIVE Low31(_, _)
Low31(u, i) == IF i > 31 THEN 0 ELSE u[i] + 2 * Low31(u, i + 1)

U32Exceeds(u, n) == u[32] = 1 \/ Low31(u, 1) > n

\* `u as usize` for a u32 that does not exceed a length of the model
as_usize(u) == Low31(u, 1)

\* slice::split_at: panics when mid > len
split_at(bytes, mid) ==
    IF mid > Len(bytes) THEN Panic("mid > len")
    ELSE Ok(<<SubSeq(bytes, 1, mid), SubSeq(bytes, mid + 1, Len(bytes))>>)

-----------------------------------------------------------------------------
(* CRC-32/ISO-HDLC, the checksum of the crc crate's CRC_32_ISO_HDLC:       *)
(* width 32, poly 0x04c11db7, init 0xffffffff, refin, refout,              *)
(* xorout 0xffffffff.  Bits go in least significant first, so the          *)
(* register shifts right and the polynomial is the reflected 0xedb88320.   *)

CrcPolyReflected == from_be_bytes(<<237, 184, 131, 32>>)

CrcInit == U32([i \in 1..32 |-> 1])

\* one round of the table's construction: shift right, and xor the
\* polynomial in when the bit shifted out is set
CrcRound(c) ==
    U32([i \in 1..32 |->
            ((IF i < 32 THEN c[i + 1] ELSE 0) + c[1] * CrcPolyReflected[i]) % 2])

RECURSIVE CrcRounds(_, _)
CrcRounds(c, k) == IF k = 0 THEN c ELSE CrcRounds(CrcRound(c), k - 1)

\* the 256-entry lookup table; entry n + 1 is the table's entry for byte n
CrcTable == [n \in 1..256 |-> CrcRounds(as_u32(n - 1), 8)] \o <<>>

\* one input byte: crc = table[(crc ^ byte) & 0xff] ^ (crc >> 8)
CrcByte(reg, byte) ==
    LET x(k) == (reg[k + 1] + BitOf(byte, k)) % 2
        idx == x(0) + 2 * x(1) + 4 * x(2) + 8 * x(3)
               + 16 * x(4) + 32 * x(5) + 64 * x(6) + 128 * x(7)
    IN  U32([i \in 1..32 |->
            ((IF i <= 24 THEN reg[i + 8] ELSE 0) + CrcTable[idx + 1][i]) % 2])

\* the register after the first n bytes
RECURSIVE CrcUpdate(_, _)
CrcUpdate(bytes, n) ==
    IF n = 0 THEN CrcInit ELSE CrcByte(CrcUpdate(bytes, n - 1), bytes[n])

\* Crc::<u32>::checksum
checksum(bytes) ==
    LET reg == CrcUpdate(bytes, Len(bytes))
    IN  U32([i \in 1..32 |-> 1 - reg[i]])

-----------------------------------------------------------------------------
(* chunk_type.rs: the 4-byte chunk type code.                              *)

ChunkType(b) == [bytes |-> b]

bytes(self) == self.bytes

is_critical(self) == BitAnd(self.bytes[1], 32) = 0

is_public(self) == BitAnd(self.bytes[2], 32) = 0

is_reserved_bit_valid(self) == BitAnd(self.bytes[3], 32) = 0

\* is_safe_to_copy with the test inverted
is_safe_to_copy_inverted(self) == BitAnd(self.bytes[4], 32) = 0

is_safe_to_copy(self) == BitAnd(self.bytes[4], 32) = 32

\* u8::is_ascii_uppercase, u8::is_ascii_lowercase
is_ascii_uppercase(byte) == 65 <= byte /\ byte <= 90

is_ascii_lowercase(byte) == 97 <= byte /\ byte <= 122

\* is_valid_byte that takes digits for letters too (is_ascii_alphanumeric)
is_valid_byte_alphanumeric(byte) ==
    is_ascii_uppercase(byte) \/ is_ascii_lowercase(byte) \/ (48 <= byte /\ byte <= 57)

is_valid_byte(byte) == is_ascii_uppercase(byte) \/ is_ascii_lowercase(byte)

\* is_valid without the reserved-bit test
is_valid_letters_only(self) == \A i \in 1..4 : is_valid_byte(self.bytes[i])

is_valid(self) ==
    IF ~is_reserved_bit_valid(self) THEN FALSE
    ELSE \A i \in 1..4 : is_valid_byte(self.bytes[i])

\* impl TryFrom<[u8; 4]> for ChunkType: no validation
ChunkType_try_from(b) == Ok(ChunkType(b))

\* the first index of s whose byte is not a letter, 0 when there is none
RECURSIVE FirstInvalidByte(_, _)
FirstInvalidByte(s, i) ==
    IF i > Len(s) THEN 0
    ELSE IF ~is_valid_byte(s[i]) THEN i
    ELSE FirstInvalidByte(s, i + 1)

\* from_str without the loop's character check
from_str_unchecked(s) ==
    IF Len(s) # 4 THEN Err([kind |-> "ByteLengthError", actual |-> Len(s)])
    ELSE Ok(ChunkType(s))

\* impl FromStr for ChunkType; s is the string's UTF-8 bytes
from_str(s) ==
    IF Len(s) # 4 THEN Err([kind |-> "ByteLengthError", actual |-> Len(s)])
    ELSE IF FirstInvalidByte(s, 1) # 0 THEN Err([kind |-> "InvalidCharacter"])
    ELSE Ok(ChunkType(s))

\* std::str::from_utf8 / String::from_utf8: whether buf, from index i on, is
\* well-formed UTF-8 (no overlong forms, no surrogates, at most U+10FFFF)
InRange(b, lo, hi) == lo <= b /\ b <= hi

RECURSIVE IsUtf8From(_, _)
IsUtf8From(buf, i) ==
    LET n == Len(buf)
        Cont(j) == j <= n /\ InRange(buf[j], 128, 191)
    IN  IF i > n THEN TRUE
        ELSE IF buf[i] <= 127 THEN IsUtf8From(buf, i + 1)
        ELSE IF InRange(buf[i], 194, 223)
            THEN Cont(i + 1) /\ IsUtf8From(buf, i + 2)
        ELSE IF buf[i] = 224
            THEN i + 1 <= n /\ InRange(buf[i + 1], 160, 191) /\ Cont(i + 2)
                 /\ IsUtf8From(buf, i + 3)
        ELSE IF InRange(buf[i], 225, 236) \/ InRange(buf[i], 238, 239)
            THEN Cont(i + 1) /\ Cont(i + 2) /\ IsUtf8From(buf, i + 3)
        ELSE IF buf[i] = 237
            THEN i + 1 <= n /\ InRange(buf[i + 1], 128, 159) /\ Cont(i + 2)
                 /\ IsUtf8From(buf, i + 3)
        ELSE IF buf[i] = 240
            THEN i + 1 <= n /\ InRange(buf[i + 1], 144, 191) /\ Cont(i + 2)
                 /\ Cont(i + 3) /\ IsUtf8From(buf, i + 4)
        ELSE IF InRange(buf[i], 241, 243)
            THEN Cont(i + 1) /\ Cont(i + 2) /\ Cont(i + 3) /\ IsUtf8From(buf, i + 4)
        ELSE IF buf[i] = 244
            THEN i + 1 <= n /\ InRange(buf[i + 1], 128, 143) /\ Cont(i + 2)
                 /\ Cont(i + 3) /\ IsUtf8From(buf, i + 4)
        ELSE FALSE

from_utf8(buf) ==
    IF IsUtf8From(buf, 1) THEN Ok(buf) ELSE Err([kind |-> "Utf8Error"])

\* impl Display for ChunkType: the 4 bytes as text, fmt::Error when they are
\* not UTF-8 (text is its UTF-8 bytes)
ChunkType_fmt(self) ==
    IF from_utf8(self.bytes).tag = "Ok" THEN Ok(self.bytes)
    ELSE Err([kind |-> "fmt::Error"])

\* ToString::to_string, which panics when Display fails
ChunkType_to_string(self) ==
    IF ChunkType_fmt(self).tag = "Ok" THEN ChunkType_fmt(self)
    ELSE Panic("a Display implementation returned an error unexpectedly")

-----------------------------------------------------------------------------
(* chunk.rs: the chunk record and its wire format.                         *)

DATA_LENGTH_BYTES == 4

CHUNK_TYPE_BYTES == 4

CRC_BYTES == 4

METADATA_BYTES == DATA_LENGTH_BYTES + CHUNK_TYPE_BYTES + CRC_BYTES

Chunk_new(chunk_type, data) == [chunk_type |-> chunk_type, data |-> data]

length(self) == as_u32(Len(self.data))

chunk_type(self) == self.chunk_type

data(self) == self.data

\* crc over the payload alone, the type code left out
crc_data_only(self) == checksum(self.data)

crc(self) == checksum(bytes(self.chunk_type) \o self.data)

data_as_string(self) ==
    IF from_utf8(self.data).tag = "Ok" THEN Ok(self.data)
    ELSE Err([kind |-> "FromUtf8Error"])

\* as_bytes with the length written little-endian (to_le_bytes)
as_bytes_le_length(self) ==
    <<U32Byte(length(self), 0), U32Byte(length(self), 1),
      U32Byte(length(self), 2), U32Byte(length(self), 3)>>
        \o bytes(self.chunk_type) \o self.data \o to_be_bytes(crc(self))

\* as_bytes with the checksum written little-endian (to_le_bytes)
as_bytes_le_crc(self) ==
    to_be_bytes(length(self)) \o bytes(self.chunk_type) \o self.data
        \o <<U32Byte(crc(self), 0), U32Byte(crc(self), 1),
             U32Byte(crc(self), 2), U32Byte(crc(self), 3)>>

as_bytes(self) ==
    to_be_bytes(length(self)) \o bytes(self.chunk_type) \o self.data
        \o to_be_bytes(crc(self))

\* impl TryFrom<&[u8]> for Chunk
Chunk_try_from(buf) ==
    IF Len(buf) < METADATA_BYTES THEN Err([kind |-> "InputTooShort"])
    ELSE
    LET s1 == split_at(buf, DATA_LENGTH_BYTES).val
        data_length == from_be_bytes(s1[1])
        s2 == split_at(s1[2], CHUNK_TYPE_BYTES).val
        ctype == ChunkType_try_from(s2[1]).val
    IN  IF ~is_valid(ctype) THEN Err([kind |-> "InvalidChunkType"])
        ELSE IF U32Exceeds(data_length, Len(s2[2])) THEN Panic("mid > len")
        ELSE
        LET s3 == split_at(s2[2], as_usize(data_length)).val
            s4 == split_at(s3[2], CRC_BYTES)
        IN  IF s4.tag = "Panic" THEN s4
            ELSE
            LET declared == from_be_bytes(s4.val[1])
                chunk == Chunk_new(ctype, s3[1])
            IN  IF crc(chunk) # declared
                    THEN Err([kind |-> "InvalidCrc", expected |-> crc(chunk),
                              actual |-> declared])
                    ELSE Ok(chunk)

\* impl Display for Chunk: the values of the summary's four lines
Chunk_fmt(self) ==
    IF ChunkType_fmt(self.chunk_type).tag # "Ok" THEN ChunkType_fmt(self.chunk_type)
    ELSE Ok([Length |-> length(self), Type |-> ChunkType_fmt(self.chunk_type).val,
             Data |-> Len(self.data), Crc |-> crc(self)])

-----------------------------------------------------------------------------
(* The container (crate::png::Png): the 8-byte signature followed by the   *)
(* chunks in order.                                                        *)

STANDARD_HEADER == <<137, 80, 78, 71, 13, 10, 26, 10>>

Png_from_chunks(cs) == [chunks |-> cs]

\* decode one chunk after another from offset on, until the buffer is
\* exhausted; the first failure is the result
RECURSIVE ParseChunks(_, _, _)
ParseChunks(buf, offset, acc) ==
    IF offset > Len(buf) THEN Ok(Png_from_chunks(acc))
    ELSE LET r == Chunk_try_from(SubSeq(buf, offset, Len(buf)))
         IN  IF r.tag # "Ok" THEN r
             ELSE ParseChunks(buf, offset + METADATA_BYTES + Len(r.val.data),
                              Append(acc, r.val))

\* impl TryFrom<&[u8]> for Png
Png_try_from(buf) ==
    IF Len(buf) < Len(STANDARD_HEADER)
       \/ SubSeq(buf, 1, Len(STANDARD_HEADER)) # STANDARD_HEADER
        THEN Err([kind |-> "InvalidHeader"])
        ELSE ParseChunks(buf, Len(STANDARD_HEADER) + 1, <<>>)

append_chunk(png, c) == Png_from_chunks(Append(png.chunks, c))

\* the index of the first chunk from i on whose type renders as type_text,
\* 0 when there is none
RECURSIVE FirstOfType(_, _, _)
FirstOfType(cs, type_text, i) ==
    IF i > Len(cs) THEN 0
    ELSE IF ChunkType_fmt(cs[i].chunk_type) = Ok(type_text) THEN i
    ELSE FirstOfType(cs, type_text, i + 1)

\* Png::remove_chunk: the container afterwards and the chunk removed
remove_chunk(png, type_text) ==
    LET i == FirstOfType(png.chunks, type_text, 1)
    IN  IF i = 0 THEN [png |-> png, result |-> Err([kind |-> "ChunkNotFound"])]
        ELSE [png |-> Png_from_chunks(SubSeq(png.chunks, 1, i - 1)
                                      \o SubSeq(png.chunks, i + 1, Len(png.chunks))),
              result |-> Ok(png.chunks[i])]

\* Png::chunk_by_type: Some(chunk) as <<chunk>>, None as <<>>
chunk_by_type(png, type_text) ==
    LET i == FirstOfType(png.chunks, type_text, 1)
    IN  IF i = 0 THEN <<>> ELSE <<png.chunks[i]>>

chunks(png) == png.chunks

RECURSIVE ConcatChunks(_, _)
ConcatChunks(cs, i) ==
    IF i > Len(cs) THEN <<>> ELSE as_bytes(cs[i]) \o ConcatChunks(cs, i + 1)

\* Png::as_bytes
Png_as_bytes(png) == STANDARD_HEADER \o ConcatChunks(png.chunks, 1)

-----------------------------------------------------------------------------
(* commands.rs: the four commands.  A file system maps each path to a file *)
(* (exists, data).  A command's outcome is the file system afterwards, its *)
(* result, the lines it printed, the container it held at its end and the  *)
(* writes it made (path and data, in order).                               *)

NoFile == [exists |-> FALSE, data |-> <<>>]

File(d) == [exists |-> TRUE, data |-> d]

DEFAULT_OUTPUT == "output.png"

IEND == <<73, 69, 78, 68>>

\* an outcome without a write
Outcome(f, result, stdout, png) ==
    [fs |-> f, result |-> result, stdout |-> stdout, png |-> png, writes |-> <<>>]

Line(text, val) == [text |-> text, val |-> val]

\* fs::write: the file at path holds exactly buf afterwards
fs_write(f, path, buf) == [f EXCEPT ![path] = File(buf)]

\* the outcome of fs::write(path, buf) followed by the rest of a command
Written(f, path, buf, result, stdout, png) ==
    [fs |-> fs_write(f, path, buf), result |-> result, stdout |-> stdout,
     png |-> png, writes |-> <<[path |-> path, data |-> buf]>>]

get_bytes_from_path(f, path) ==
    IF f[path].exists THEN Ok(f[path].data) ELSE Panic("Unable to open file")

\* encode with the two appends in the other order: IEND, then the new chunk
encode_iend_first(f, args) ==
    LET b == get_bytes_from_path(f, args.file_path)
    IN  IF b.tag # "Ok" THEN Outcome(f, b, <<>>, <<>>)
        ELSE
        LET p == Png_try_from(b.val)
        IN  IF p.tag # "Ok" THEN Outcome(f, p, <<>>, <<>>)
            ELSE
            LET r == remove_chunk(p.val, IEND)
            IN  IF r.result.tag # "Ok" THEN Outcome(f, r.result, <<>>, <<r.png>>)
                ELSE
                LET t == from_str(args.chunk_type)
                IN  IF t.tag # "Ok" THEN Outcome(f, t, <<>>, <<r.png>>)
                    ELSE
                    LET added == append_chunk(r.png, r.result.val)
                        png == append_chunk(added, Chunk_new(t.val, args.message))
                        output_path == IF args.output_path = <<>>
                                           THEN DEFAULT_OUTPUT
                                           ELSE args.output_path[1]
                    IN  Written(f, output_path, Png_as_bytes(png), Ok(<<>>),
                                <<Line("Message encoded successfully!", <<>>)>>,
                                <<png>>)

\* encode that opens (and so truncates) the output file before it checks
\* the type string
encode_opens_output_first(f, args) ==
    LET b == get_bytes_from_path(f, args.file_path)
    IN  IF b.tag # "Ok" THEN Outcome(f, b, <<>>, <<>>)
        ELSE
        LET p == Png_try_from(b.val)
        IN  IF p.tag # "Ok" THEN Outcome(f, p, <<>>, <<>>)
            ELSE
            LET r == remove_chunk(p.val, IEND)
            IN  IF r.result.tag # "Ok" THEN Outcome(f, r.result, <<>>, <<r.png>>)
                ELSE
                LET t == from_str(args.chunk_type)
                IN  IF t.tag # "Ok"
                        THEN Written(f, IF args.output_path = <<>>
                                            THEN DEFAULT_OUTPUT
                                            ELSE args.output_path[1],
                                     <<>>, t, <<>>, <<r.png>>)
                    ELSE
                    LET added == append_chunk(r.png, Chunk_new(t.val, args.message))
                        png == append_chunk(added, r.result.val)
                        output_path == IF args.output_path = <<>>
                                           THEN DEFAULT_OUTPUT
                                           ELSE args.output_path[1]
                    IN  Written(f, output_path, Png_as_bytes(png), Ok(<<>>),
                                <<Line("Message encoded successfully!", <<>>)>>,
                                <<png>>)

\* Encodes a message into a PNG file and saves the result
encode(f, args) ==
    LET b == get_bytes_from_path(f, args.file_path)
    IN  IF b.tag # "Ok" THEN Outcome(f, b, <<>>, <<>>)
        ELSE
        LET p == Png_try_from(b.val)
        IN  IF p.tag # "Ok" THEN Outcome(f, p, <<>>, <<>>)
            ELSE
            LET r == remove_chunk(p.val, IEND)
            IN  IF r.result.tag # "Ok" THEN Outcome(f, r.result, <<>>, <<r.png>>)
                ELSE
                LET t == from_str(args.chunk_type)
                IN  IF t.tag # "Ok" THEN Outcome(f, t, <<>>, <<r.png>>)
                    ELSE
                    LET added == append_chunk(r.png, Chunk_new(t.val, args.message))
                        png == append_chunk(added, r.result.val)
                        output_path == IF args.output_path = <<>>
                                           THEN DEFAULT_OUTPUT
                                           ELSE args.output_path[1]
                    IN  Written(f, output_path, Png_as_bytes(png), Ok(<<>>),
                                <<Line("Message encoded successfully!", <<>>)>>,
                                <<png>>)

\* Searches for a message hidden in a PNG file and prints it
decode(f, args) ==
    LET b == get_bytes_from_path(f, args.file_path)
    IN  IF b.tag # "Ok" THEN Outcome(f, b, <<>>, <<>>)
        ELSE
        LET p == Png_try_from(b.val)
        IN  IF p.tag # "Ok" THEN Outcome(f, p, <<>>, <<>>)
            ELSE
            LET target == chunk_by_type(p.val, args.chunk_type)
            IN  IF target = <<>>
                    THEN Outcome(f, Panic("Chunk not found"), <<>>, <<p.val>>)
                ELSE
                LET text == data_as_string(target[1])
                IN  IF text.tag # "Ok" THEN Outcome(f, text, <<>>, <<p.val>>)
                    ELSE Outcome(f, Ok(<<>>),
                                 <<Line("Hidden message: ", text.val)>>, <<p.val>>)

\* remove that writes back the bytes it read
remove_writes_input(f, args) ==
    LET b == get_bytes_from_path(f, args.file_path)
    IN  IF b.tag # "Ok" THEN Outcome(f, b, <<>>, <<>>)
        ELSE
        LET p == Png_try_from(b.val)
        IN  IF p.tag # "Ok" THEN Outcome(f, p, <<>>, <<>>)
            ELSE
            LET r == remove_chunk(p.val, args.chunk_type)
            IN  IF r.result.tag # "Ok" THEN Outcome(f, r.result, <<>>, <<r.png>>)
                ELSE Written(f, args.file_path, b.val, Ok(<<>>),
                             <<Line("Chunk removed successfully!", <<>>)>>,
                             <<r.png>>)

\* Removes a chunk from a PNG file and saves the result
remove(f, args) ==
    LET b == get_bytes_from_path(f, args.file_path)
    IN  IF b.tag # "Ok" THEN Outcome(f, b, <<>>, <<>>)
        ELSE
        LET p == Png_try_from(b.val)
        IN  IF p.tag # "Ok" THEN Outcome(f, p, <<>>, <<>>)
            ELSE
            LET r == remove_chunk(p.val, args.chunk_type)
            IN  IF r.result.tag # "Ok" THEN Outcome(f, r.result, <<>>, <<r.png>>)
                ELSE Written(f, args.file_path, Png_as_bytes(r.png), Ok(<<>>),
                             <<Line("Chunk removed successfully!", <<>>)>>,
                             <<r.png>>)

\* the lines println!("{}", chunk) prints for the chunks from i on
RECURSIVE PrintLines(_, _)
PrintLines(cs, i) ==
    IF i > Len(cs) THEN <<>>
    ELSE <<Line("Chunk", Chunk_fmt(cs[i]))>> \o PrintLines(cs, i + 1)

\* Prints all of the chunks in a PNG file
print_chunks(f, args) ==
    LET b == get_bytes_from_path(f, args.file_path)
    IN  IF b.tag # "Ok" THEN Outcome(f, b, <<>>, <<>>)
        ELSE
        LET p == Png_try_from(b.val)
        IN  IF p.tag # "Ok" THEN Outcome(f, p, <<>>, <<>>)
            ELSE Outcome(f, Ok(<<>>), PrintLines(chunks(p.val), 1), <<p.val>>)

\* main with no command: prints a line and ends
no_command(f) == Outcome(f, Ok(<<>>), <<Line("No command provided", <<>>)>>, <<>>)

-----------------------------------------------------------------------------
(* Bounds and input sets.                                                  *)

\* characters a type string is drawn from
MaxStrChars == 4

\* payload bytes of a chunk handed to Chunk::new
MaxData == 2

\* commands run one after another on the same file system
MaxCmds == 2

\* type-code bytes: the letters' range ends and their neighbours, the
\* letters of "RuSt" and "Rust", a digit, and the ends of the byte range
TypeBytes == {0, 49, 64, 65, 82, 83, 90, 91, 96, 97, 115, 116, 117, 122, 123, 255}

RawCodes == TypeBytes \X TypeBytes \X TypeBytes \X TypeBytes

\* the characters of the strings, each its UTF-8 bytes: R u S s t 1 and the
\* two-byte U+00E9
Chars == {<<82>>, <<117>>, <<83>>, <<115>>, <<116>>, <<49>>, <<195, 169>>}

RECURSIVE StringsUpTo(_)
StringsUpTo(n) ==
    IF n = 0 THEN {<<>>}
    ELSE LET shorter == StringsUpTo(n - 1)
         IN  shorter \cup {str \o c : str \in shorter, c \in Chars}

Strings == StringsUpTo(MaxStrChars)

DataBytes == {0, 104, 255}

RECURSIVE SeqsUpTo(_, _)
SeqsUpTo(S, n) ==
    IF n = 0 THEN {<<>>}
    ELSE LET shorter == SeqsUpTo(S, n - 1)
         IN  shorter \cup {Append(q, x) : q \in shorter, x \in S}

Payloads == SeqsUpTo(DataBytes, MaxData)

\* "RuSt", "ruSt", "IEND", and two that is_valid() rejects: "Rust", "Ru1t"
CoreCodes == {<<82, 117, 83, 116>>, <<114, 117, 83, 116>>, IEND,
              <<82, 117, 115, 116>>, <<82, 117, 49, 116>>}

\* the chunks Chunk::new is given: the core codes with every payload, every
\* raw code with the empty payload
NewChunks ==
    {Chunk_new(ChunkType_try_from(c).val, d) : c \in CoreCodes, d \in Payloads}
    \cup {Chunk_new(ChunkType_try_from(c).val, <<>>) : c \in RawCodes}

\* the byte at index i of buf with its bit k flipped
FlipBit(buf, i, k) ==
    [buf EXCEPT ![i] = IF BitOf(buf[i], k) = 1 THEN buf[i] - Pow2(k)
                                               ELSE buf[i] + Pow2(k)]

-----------------------------------------------------------------------------
(* State.                                                                  *)

VARIABLES
    arg,        \* the input of a type-code constructor: [kind, val]
    ret,        \* <<its result>>, <<>> before the call
    stage,      \* of the chunk round trip: built, serialized, decoded
    built,      \* the chunk made by Chunk::new
    wire,       \* the byte buffer: as_bytes() of built, possibly tampered with
    tamper,     \* what was done to the buffer: [kind, at, bit]
    decoded,    \* <<the result of Chunk::try_from(wire)>>, <<>> before
    fs,         \* the file system: path -> file
    last,       \* the last command run: its arguments, outcome, and the
                \* file system before it
    ncmds       \* commands run so far

vars == <<arg, ret, stage, built, wire, tamper, decoded, fs, last, ncmds>>

typeVars == <<arg, ret>>

chunkVars == <<stage, built, wire, tamper, decoded>>

cmdVars == <<fs, last, ncmds>>

NoTamper == [kind |-> "none", at |-> 0, bit |-> 0]

Paths == {"a.png", DEFAULT_OUTPUT}

NoCommand ==
    [cmd |-> "none", args |-> [file_path |-> "a.png"], result |-> Ok(<<>>),
     stdout |-> <<>>, png |-> <<>>, writes |-> <<>>,
     before |-> [p \in Paths |-> NoFile]]

IdleType == arg = [kind |-> "none", val |-> <<>>] /\ ret = <<>>

IdleChunk ==
    /\ stage = "idle"
    /\ built = Chunk_new(ChunkType(IEND), <<>>)
    /\ wire = <<>>
    /\ tamper = NoTamper
    /\ decoded = <<>>

IdleCmd ==
    /\ fs = [p \in Paths |-> NoFile]
    /\ last = NoCommand
    /\ ncmds = 0

-----------------------------------------------------------------------------
(* The type-code constructors, each applied to one input.                  *)

InitType ==
    /\ arg \in {[kind |-> "bytes", val |-> c] : c \in RawCodes}
               \cup {[kind |-> "str", val |-> str] : str \in Strings}
    /\ ret = <<>>
    /\ IdleChunk
    /\ IdleCmd

TryFrom ==
    /\ arg.kind = "bytes"
    /\ ret = <<>>
    /\ ret' = <<ChunkType_try_from(arg.val)>>
    /\ UNCHANGED <<arg, chunkVars, cmdVars>>

FromStr ==
    /\ arg.kind = "str"
    /\ ret = <<>>
    /\ ret' = <<from_str(arg.val)>>
    /\ UNCHANGED <<arg, chunkVars, cmdVars>>

NextType == TryFrom \/ FromStr

SpecType == InitType /\ [][NextType]_vars

-----------------------------------------------------------------------------
(* A chunk built by Chunk::new, serialized, the buffer possibly tampered   *)
(* with on its way (one bit flipped, or the end cut off), and decoded.     *)

InitChunk ==
    /\ stage = "built"
    /\ built \in NewChunks
    /\ wire = <<>>
    /\ tamper = NoTamper
    /\ decoded = <<>>
    /\ IdleType
    /\ IdleCmd

Serialize ==
    /\ stage = "built"
    /\ stage' = "serialized"
    /\ wire' = as_bytes(built)
    /\ UNCHANGED <<built, tamper, decoded, typeVars, cmdVars>>

Flip ==
    /\ stage = "serialized"
    /\ tamper = NoTamper
    /\ built.chunk_type.bytes \in CoreCodes
    /\ \E i \in 1..Len(wire), k \in 0..7 :
        /\ wire' = FlipBit(wire, i, k)
        /\ tamper' = [kind |-> "flip", at |-> i, bit |-> k]
    /\ UNCHANGED <<stage, built, decoded, typeVars, cmdVars>>

Truncate ==
    /\ stage = "serialized"
    /\ tamper = NoTamper
    /\ built.chunk_type.bytes \in CoreCodes
    /\ \E n \in 0..(Len(wire) - 1) :
        /\ wire' = SubSeq(wire, 1, n)
        /\ tamper' = [kind |-> "truncate", at |-> n, bit |-> 0]
    /\ UNCHANGED <<stage, built, decoded, typeVars, cmdVars>>

Decode ==
    /\ stage = "serialized"
    /\ stage' = "decoded"
    /\ decoded' = <<Chunk_try_from(wire)>>
    /\ UNCHANGED <<built, wire, tamper, typeVars, cmdVars>>

NextChunk == Serialize \/ Flip \/ Truncate \/ Decode

SpecChunk == InitChunk /\ [][NextChunk]_vars

-----------------------------------------------------------------------------
(* The commands, run one after another on a file system that holds one     *)
(* file, a.png, at the start.                                              *)

Ihdr == Chunk_new(ChunkType(<<73, 72, 68, 82>>), <<0>>)

Iend == Chunk_new(ChunkType(IEND), <<>>)

\* two chunks of type "ruSt" with different payloads, "hi" and "yo"
RustHi == Chunk_new(ChunkType(<<114, 117, 83, 116>>), <<104, 105>>)

RustYo == Chunk_new(ChunkType(<<114, 117, 83, 116>>), <<121, 111>>)

\* a chunk of type "bLOb" whose payload is not UTF-8
Blob == Chunk_new(ChunkType(<<98, 76, 79, 98>>), <<255>>)

InitialContainers ==
    {<<>>,
     <<Iend>>,
     <<Ihdr, Iend>>,
     <<Ihdr, RustHi>>,
     <<Ihdr, RustHi, Iend>>,
     <<Ihdr, Iend, RustHi>>,
     <<Ihdr, RustHi, RustYo, Iend>>,
     <<RustYo, Ihdr, RustHi, Iend>>,
     <<Ihdr, Iend, RustHi, Iend>>,
     <<Ihdr, Blob, Iend>>}

WellFormed == Png_as_bytes(Png_from_chunks(<<Ihdr, RustHi, Iend>>))

\* files that are no container: empty, a wrong signature, the last byte cut
\* off, a flipped payload bit, a chunk type with the reserved bit set, and a
\* length field larger than the file
Malformed ==
    {<<>>,
     FlipBit(WellFormed, 1, 0),
     SubSeq(WellFormed, 1, Len(WellFormed) - 1),
     FlipBit(WellFormed, 30, 0),
     FlipBit(WellFormed, 15, 5),
     FlipBit(WellFormed, 9, 7)}

InitialFiles ==
    {Png_as_bytes(Png_from_chunks(cs)) : cs \in InitialContainers} \cup Malformed

\* the type strings given to encode: "ruSt", "Rust", "IEND", "Ru1t", "abc"
EncodeTypes == {<<114, 117, 83, 116>>, <<82, 117, 115, 116>>, IEND,
                <<82, 117, 49, 116>>, <<97, 98, 99>>}

\* the type strings given to decode and remove: "ruSt", "IEND", "bLOb", "tEXt"
LookupTypes == {<<114, 117, 83, 116>>, IEND, <<98, 76, 79, 98>>,
                <<116, 69, 88, 116>>}

\* the messages: "hi"
Messages == {<<104, 105>>}

EncodeArgs ==
    [file_path : Paths, chunk_type : EncodeTypes, message : Messages,
     output_path : {<<>>, <<"a.png">>}]

DecodeArgs == [file_path : Paths, chunk_type : LookupTypes]

RemoveArgs == [file_path : Paths, chunk_type : LookupTypes]

PrintArgs == [file_path : Paths]

Init ==
    /\ \E d \in InitialFiles :
          fs = [p \in Paths |-> IF p = "a.png" THEN File(d) ELSE NoFile]
    /\ last = NoCommand
    /\ ncmds = 0
    /\ IdleType
    /\ IdleChunk

\* one run of the program (main): the command cmd with arguments args, and
\* its outcome o
Run(cmd, args, o) ==
    /\ ncmds < MaxCmds
    /\ fs' = o.fs
    /\ last' = [cmd |-> cmd, args |-> args, result |-> o.result,
                stdout |-> o.stdout, png |-> o.png, writes |-> o.writes,
                before |-> fs]
    /\ ncmds' = ncmds + 1
    /\ UNCHANGED <<typeVars, chunkVars>>

Encode == \E a \in EncodeArgs : Run("encode", a, encode(fs, a))

DecodeCmd == \E a \in DecodeArgs : Run("decode", a, decode(fs, a))

Remove == \E a \in RemoveArgs : Run("remove", a, remove(fs, a))

PrintChunks == \E a \in PrintArgs : Run("print", a, print_chunks(fs, a))

Nothing == Run("none", [file_path |-> "a.png"], no_command(fs))

Next == Encode \/ DecodeCmd \/ Remove \/ PrintChunks \/ Nothing

Spec == Init /\ [][Next]_vars

-----------------------------------------------------------------------------
(* Properties of the type code (SpecType).                                 *)

\* bit 5 (0x20) of a byte
Bit5(b) == (b \div 32) % 2

IsLetter(b) == b \in (65..90) \cup (97..122)

\* four ASCII letters, bit 5 of the third clear
ValidCode(c) == Bit5(c[3]) = 0 /\ \A i \in 1..4 : IsLetter(c[i])

Called == ret # <<>>

\* C4: from_str succeeds exactly for the strings of 4 bytes that are all
\* ASCII letters; a string whose byte length is not 4 fails with
\* ByteLengthError, a 4-byte string with a byte that is no letter fails with
\* InvalidCharacter, and a success is the type code try_from builds from the
\* same 4 bytes.
C4_FromStrGate ==
    (Called /\ arg.kind = "str") =>
        LET str == arg.val
            r == ret[1]
            letters == Len(str) = 4 /\ \A i \in 1..4 : IsLetter(str[i])
        IN  /\ (r.tag = "Ok") <=> letters
            /\ Len(str) # 4 => r.tag = "Err" /\ r.err.kind = "ByteLengthError"
            /\ (Len(str) = 4 /\ ~letters)
                   => r.tag = "Err" /\ r.err.kind = "InvalidCharacter"
            /\ letters => r = ChunkType_try_from(<<str[1], str[2], str[3], str[4]>>)

\* from_str("RuSt") has succeeded
C4_Witness ==
    /\ Called /\ arg.kind = "str" /\ arg.val = <<82, 117, 83, 116>>
    /\ ret[1].tag = "Ok" /\ ret[1].val.bytes = <<82, 117, 83, 116>>

\* C6 as claimed: every ChunkType a constructor returns satisfies is_valid().
C6_AlwaysValid == (Called /\ ret[1].tag = "Ok") => is_valid(ret[1].val)

\* C6 amended: a ChunkType from from_str is four ASCII letters, and satisfies
\* is_valid() exactly when bit 5 of its third byte is clear; try_from
\* accepts any 4 bytes unchanged, and its result satisfies is_valid() exactly
\* when the bytes are four letters with bit 5 of the third clear.
C6_ConstructedValidity ==
    /\ (Called /\ arg.kind = "str" /\ ret[1].tag = "Ok") =>
           /\ ret[1].val.bytes = arg.val
           /\ \A i \in 1..4 : IsLetter(ret[1].val.bytes[i])
           /\ is_valid(ret[1].val) <=> Bit5(ret[1].val.bytes[3]) = 0
    /\ (Called /\ arg.kind = "bytes") =>
           /\ ret[1].tag = "Ok"
           /\ ret[1].val.bytes = arg.val
           /\ is_valid(ret[1].val) <=> ValidCode(arg.val)

\* from_str("Rust") has succeeded with a type code that is not valid
C6_Witness ==
    /\ Called /\ arg.kind = "str" /\ arg.val = <<82, 117, 115, 116>>
    /\ ret[1].tag = "Ok" /\ ~is_valid(ret[1].val)

\* C10: each accessor is the test of bit 5 of its own byte: is_critical of
\* byte 0 (clear), is_public of byte 1 (clear), is_reserved_bit_valid of
\* byte 2 (clear), is_safe_to_copy of byte 3 (set); flipping any one bit of
\* the code changes an accessor's answer exactly when it is that bit.
C10_BitTests ==
    (Called /\ ret[1].tag = "Ok") =>
        LET c == ret[1].val
        IN  /\ is_critical(c) <=> Bit5(c.bytes[1]) = 0
            /\ is_public(c) <=> Bit5(c.bytes[2]) = 0
            /\ is_reserved_bit_valid(c) <=> Bit5(c.bytes[3]) = 0
            /\ is_safe_to_copy(c) <=> Bit5(c.bytes[4]) = 1
            /\ \A i \in 1..4, k \in 0..7 :
                  LET d == ChunkType(FlipBit(c.bytes, i, k))
                  IN  /\ (is_critical(d) # is_critical(c)) <=> (i = 1 /\ k = 5)
                      /\ (is_public(d) # is_public(c)) <=> (i = 2 /\ k = 5)
                      /\ (is_reserved_bit_valid(d) # is_reserved_bit_valid(c))
                             <=> (i = 3 /\ k = 5)
                      /\ (is_safe_to_copy(d) # is_safe_to_copy(c))
                             <=> (i = 4 /\ k = 5)

\* try_from on the bytes of "RuSt": critical, private, reserved bit valid,
\* safe to copy
C10_Witness ==
    /\ Called /\ arg.kind = "bytes" /\ arg.val = <<82, 117, 83, 116>>
    /\ is_critical(ret[1].val) /\ ~is_public(ret[1].val)
    /\ is_reserved_bit_valid(ret[1].val) /\ is_safe_to_copy(ret[1].val)

-----------------------------------------------------------------------------
(* Properties of the chunk record and its wire format (SpecChunk).         *)

Decoded == stage = "decoded"

\* the type-code bytes and the length field of a buffer of 12 bytes or more
WireCode == SubSeq(wire, 5, 8)

WireLength == from_be_bytes(SubSeq(wire, 1, 4))

\* the flipped bit lies in the type code (bytes 5..8) or in the payload (from
\* byte 9 to the byte before the 4 checksum bytes)
FlipInTypeOrPayload ==
    tamper.kind = "flip" /\ 5 <= tamper.at /\ tamper.at <= Len(wire) - 4

\* C1: a chunk built by Chunk::new from a valid type code and any payload,
\* serialized by as_bytes() and decoded from those bytes, decodes
\* successfully to the same type code bytes, the same payload and the same
\* checksum.
C1_RoundTrip ==
    (Decoded /\ tamper = NoTamper /\ ValidCode(built.chunk_type.bytes)) =>
        /\ decoded[1].tag = "Ok"
        /\ decoded[1].val.chunk_type.bytes = built.chunk_type.bytes
        /\ decoded[1].val.data = built.data
        /\ crc(decoded[1].val) = crc(built)
        /\ to_be_bytes(crc(built)) = SubSeq(wire, Len(wire) - 3, Len(wire))

\* the round trip of "RuSt" with a payload of two bytes
C1_Witness ==
    /\ Decoded /\ tamper = NoTamper
    /\ built.chunk_type.bytes = <<82, 117, 83, 116>> /\ Len(built.data) = 2
    /\ decoded[1].tag = "Ok"

\* C2 as claimed, for the records whose type code is valid: one bit of the
\* type code or of the payload flipped, the checksum bytes as they were,
\* and decoding fails with InvalidCrc.
C2_FlipIsInvalidCrc ==
    (Decoded /\ FlipInTypeOrPayload /\ ValidCode(built.chunk_type.bytes)) =>
        decoded[1].tag = "Err" /\ decoded[1].err.kind = "InvalidCrc"

\* C2 amended: with one bit of the type code or of the payload flipped and
\* the checksum bytes as they were, decoding fails: with InvalidChunkType
\* when the type code in the buffer is not valid (the validity test comes
\* before the checksum test), with InvalidCrc otherwise; the checksum it
\* reports as found is the one in the buffer.
C2_FlipIsRejected ==
    (Decoded /\ FlipInTypeOrPayload) =>
        /\ decoded[1].tag = "Err"
        /\ IF ValidCode(WireCode)
               THEN /\ decoded[1].err.kind = "InvalidCrc"
                    /\ to_be_bytes(decoded[1].err.actual)
                           = SubSeq(wire, Len(wire) - 3, Len(wire))
                    /\ decoded[1].err.expected # decoded[1].err.actual
               ELSE decoded[1].err.kind = "InvalidChunkType"

\* a flip in the type code that leaves it valid ("RuSt" to "RuSu"), caught by
\* the checksum
C2_Witness ==
    /\ Decoded /\ FlipInTypeOrPayload /\ tamper.at = 8
    /\ built.chunk_type.bytes = <<82, 117, 83, 116>>
    /\ WireCode = <<82, 117, 83, 117>>
    /\ decoded[1].tag = "Err" /\ decoded[1].err.kind = "InvalidCrc"

\* C3 as claimed: an input shorter than 12 bytes decodes to InputTooShort,
\* and so does an input of 12 bytes or more with a valid type code whose
\* length field is larger than the bytes left for the payload once the 4
\* checksum bytes are set aside.
C3_ShortInputIsTooShort ==
    Decoded =>
        /\ Len(wire) < 12 =>
               decoded[1].tag = "Err" /\ decoded[1].err.kind = "InputTooShort"
        /\ (Len(wire) >= 12 /\ ValidCode(WireCode)
                /\ U32Exceeds(WireLength, Len(wire) - 12)) =>
               decoded[1].tag = "Err" /\ decoded[1].err.kind = "InputTooShort"

\* C5: is_valid() is true exactly when bit 5 of the third byte is clear and
\* all four bytes are ASCII letters; an input of 12 bytes or more whose type
\* code is not valid decodes to InvalidChunkType; a chunk decoded
\* successfully has a valid type code.
C5_ValidTypeGate ==
    /\ is_valid(built.chunk_type) <=> ValidCode(built.chunk_type.bytes)
    /\ (Decoded /\ Len(wire) >= 12) =>
           /\ is_valid(ChunkType(WireCode)) <=> ValidCode(WireCode)
           /\ ~is_valid(ChunkType(WireCode)) =>
                  decoded[1].tag = "Err" /\ decoded[1].err.kind = "InvalidChunkType"
    /\ (Decoded /\ decoded[1].tag = "Ok") =>
           /\ is_valid(decoded[1].val.chunk_type)
           /\ ValidCode(decoded[1].val.chunk_type.bytes)

\* the serialized "Rust" chunk (reserved bit set) is refused
C5_Witness ==
    /\ Decoded /\ tamper = NoTamper /\ Len(wire) >= 12
    /\ WireCode = <<82, 117, 115, 116>>
    /\ decoded[1].tag = "Err" /\ decoded[1].err.kind = "InvalidChunkType"

\* the number a 4-byte big-endian field below 2^31 stands for
BeValue(b) == ((b[1] * 256 + b[2]) * 256 + b[3]) * 256 + b[4]

\* the buffer as_bytes() returned, before anything touched it
Serialized == stage # "built" /\ tamper = NoTamper

\* C11: for every chunk, whatever its type code, as_bytes() returns exactly
\* 12 + payload-length bytes: the payload byte count as a 4-byte big-endian
\* integer, the 4 type-code bytes, the payload bytes unchanged, and the
\* checksum over the type-code bytes followed by the payload bytes as 4
\* big-endian bytes; the length field equals the number of payload bytes
\* that follow it.  A chunk decoded successfully serializes to the buffer it
\* was decoded from.  The bytes of three chunks are spelt out: "IEND" with no
\* payload, "Rust" with the payload 0, "RuSt" with the payload 104, 255.
C11_SerializedLayout ==
    /\ Serialized =>
           /\ Len(wire) = METADATA_BYTES + Len(built.data)
           /\ wire[1] < 128
           /\ BeValue(SubSeq(wire, 1, 4)) = Len(built.data)
           /\ BeValue(SubSeq(wire, 1, 4)) = Len(wire) - 12
           /\ SubSeq(wire, 5, 8) = built.chunk_type.bytes
           /\ SubSeq(wire, 9, Len(wire) - 4) = built.data
           /\ SubSeq(wire, Len(wire) - 3, Len(wire))
                  = to_be_bytes(checksum(SubSeq(wire, 5, Len(wire) - 4)))
           /\ (built.chunk_type.bytes = IEND /\ built.data = <<>>) =>
                  wire = <<0, 0, 0, 0, 73, 69, 78, 68, 174, 66, 96, 130>>
           /\ (built.chunk_type.bytes = <<82, 117, 115, 116>>
                   /\ built.data = <<0>>) =>
                  wire = <<0, 0, 0, 1, 82, 117, 115, 116, 0, 197, 244, 81, 227>>
           /\ (built.chunk_type.bytes = <<82, 117, 83, 116>>
                   /\ built.data = <<104, 255>>) =>
                  wire = <<0, 0, 0, 2, 82, 117, 83, 116, 104, 255,
                           203, 208, 9, 2>>
    /\ (Decoded /\ decoded[1].tag = "Ok") =>
           as_bytes(decoded[1].val) = wire

\* "RuSt" with a payload of two bytes, serialized to 14 bytes
C11_Witness ==
    /\ Serialized /\ stage = "serialized"
    /\ built.chunk_type.bytes = <<82, 117, 83, 116>>
    /\ built.data = <<104, 255>>
    /\ Len(wire) = 14 /\ wire[4] = 2

-----------------------------------------------------------------------------
(* Properties of the commands (Spec).                                      *)

\* the file the last command was given, as it was before the command ran
InputFile == last.before[last.args.file_path]

\* the container in that file, when the file exists and decodes
InputDecodes == InputFile.exists /\ Png_try_from(InputFile.data).tag = "Ok"

InputChunks == Png_try_from(InputFile.data).val.chunks

\* the positions in the chunk sequence cs of the chunks of type t
PositionsOf(cs, t) == {i \in 1..Len(cs) : cs[i].chunk_type.bytes = t}

Least(S) == CHOOSE i \in S : \A j \in S : i <= j

\* cs without its element at position i
Without(cs, i) == SubSeq(cs, 1, i - 1) \o SubSeq(cs, i + 1, Len(cs))

\* the file of the container cs: the signature, then each chunk's length,
\* type code, payload and checksum
FileOf(cs) == Png_as_bytes(Png_from_chunks(cs))

\* the type string is four ASCII letters
Accepted(t) == Len(t) = 4 /\ \A i \in 1..4 : IsLetter(t[i])

EncodeOutput ==
    IF last.args.output_path = <<>> THEN "output.png" ELSE last.args.output_path[1]

\* C7: when the input file decodes to a container that holds an IEND chunk
\* and the type string is accepted by from_str, encode succeeds and the
\* container it writes is the input's chunks without the first IEND, in
\* their order, then the new chunk (the type given, the message bytes as
\* payload), then the IEND chunk it removed, last.
C7_EncodeKeepsIendLast ==
    (last.cmd = "encode" /\ InputDecodes /\ PositionsOf(InputChunks, IEND) # {}
        /\ Accepted(last.args.chunk_type)) =>
        LET i == Least(PositionsOf(InputChunks, IEND))
            new == [chunk_type |-> [bytes |-> last.args.chunk_type],
                    data |-> last.args.message]
            expected == Without(InputChunks, i) \o <<new, InputChunks[i]>>
        IN  /\ last.result.tag = "Ok"
            /\ last.png = <<Png_from_chunks(expected)>>
            /\ last.writes = <<[path |-> EncodeOutput, data |-> FileOf(expected)]>>
            /\ fs = [last.before EXCEPT ![EncodeOutput] = File(FileOf(expected))]
            /\ expected[Len(expected)].chunk_type.bytes = IEND
            /\ ValidCode(last.args.chunk_type) =>
                   Png_try_from(fs[EncodeOutput].data) = Ok(Png_from_chunks(expected))

\* encode has written a container of four chunks or more, IEND last
C7_Witness ==
    /\ last.cmd = "encode" /\ last.result.tag = "Ok"
    /\ Len(last.png[1].chunks) >= 4
    /\ last.png[1].chunks[Len(last.png[1].chunks)].chunk_type.bytes = IEND
    /\ fs[EncodeOutput].data = Png_as_bytes(last.png[1])

\* every step of the last command before its write succeeded
StepsSucceed ==
    /\ InputDecodes
    /\ last.cmd = "encode" =>
           PositionsOf(InputChunks, IEND) # {} /\ Accepted(last.args.chunk_type)
    /\ last.cmd = "remove" => PositionsOf(InputChunks, last.args.chunk_type) # {}
    /\ last.cmd = "decode" =>
           /\ PositionsOf(InputChunks, last.args.chunk_type) # {}
           /\ IsUtf8From(InputChunks[Least(PositionsOf(InputChunks,
                                                       last.args.chunk_type))].data, 1)

\* C8: when a step of encode, decode, remove or print fails (the file does
\* not decode, the IEND or the target chunk is not found, the type string is
\* rejected, the payload is not UTF-8) the command ends in an error or a
\* panic and has written nothing: no write was made and every file is as it
\* was; a write is made only when every step before it succeeded.
C8_NoWriteOnFailure ==
    (last.cmd \in {"encode", "decode", "remove", "print"}) =>
        /\ ~StepsSucceed => last.result.tag \in {"Err", "Panic"}
        /\ last.result.tag # "Ok" => last.writes = <<>> /\ fs = last.before
        /\ last.writes # <<>> => StepsSucceed /\ last.result.tag = "Ok"
        /\ last.cmd \in {"decode", "print"} => last.writes = <<>> /\ fs = last.before

\* encode has found and removed IEND, then refused the type string "Ru1t"
C8_Witness ==
    /\ last.cmd = "encode" /\ last.args.chunk_type = <<82, 117, 49, 116>>
    /\ InputDecodes /\ PositionsOf(InputChunks, IEND) # {}
    /\ last.result.tag = "Err" /\ last.result.err.kind = "InvalidCharacter"
    /\ last.writes = <<>> /\ fs = last.before

\* C9: remove_chunk removes and returns the first chunk, in sequence order,
\* whose type renders as the text given, the other chunks (later ones of the
\* same type among them) keeping their order, and the remove command writes
\* that container back; when no chunk matches it fails with ChunkNotFound,
\* the container is as it was and nothing is written.
C9_RemoveFirstOfType ==
    (last.cmd = "remove" /\ InputDecodes) =>
        LET t == last.args.chunk_type
            cs == InputChunks
            found == PositionsOf(cs, t)
            removal == remove_chunk(Png_from_chunks(cs), t)
        IN  IF found = {}
                THEN /\ removal.result.tag = "Err"
                     /\ removal.result.err.kind = "ChunkNotFound"
                     /\ removal.png.chunks = cs
                     /\ last.result = removal.result
                     /\ last.png = <<Png_from_chunks(cs)>>
                     /\ last.writes = <<>> /\ fs = last.before
                ELSE /\ removal.result = Ok(cs[Least(found)])
                     /\ removal.png.chunks = Without(cs, Least(found))
                     /\ last.result.tag = "Ok"
                     /\ last.png = <<Png_from_chunks(Without(cs, Least(found)))>>
                     /\ last.writes = <<[path |-> last.args.file_path,
                                         data |-> FileOf(Without(cs, Least(found)))]>>
                     /\ fs = [last.before EXCEPT ![last.args.file_path] =
                                  File(FileOf(Without(cs, Least(found))))]
                     /\ Png_try_from(fs[last.args.file_path].data)
                            = Ok(Png_from_chunks(Without(cs, Least(found))))

\* remove has taken the first of two "ruSt" chunks and left the second
C9_Witness ==
    /\ last.cmd = "remove" /\ last.result.tag = "Ok" /\ InputDecodes
    /\ Cardinality(PositionsOf(InputChunks, last.args.chunk_type)) >= 2
    /\ PositionsOf(last.png[1].chunks, last.args.chunk_type) # {}
    /\ Len(last.png[1].chunks) = Len(InputChunks) - 1

=============================================================================
